---- MODULE Spec2Model ----
(***************************************************************************)
(* crelay: relay card control utility (src/src/crelay.c).                  *)
(*                                                                         *)
(* The model follows main() and process_http_request() statement by        *)
(* statement.  C strings are TLA+ strings; a "char*" into a string is the  *)
(* suffix it points at.  The relay card drivers (relay_drv.h) are not part *)
(* of this file's source: they are modelled from the Card Capability       *)
(* Contract (detect / get / set) and hold the hardware state hw.           *)
(***************************************************************************)
EXTENDS Integers, Sequences, FiniteSets, TLC

\* ------------------------------------------------------------------ bounds
MaxRelayCount == 2      \* attached cards have 0 (no card) .. MaxRelayCount relays
MaxConnections == 2     \* connections the clients open during one run

\* ------------------------------------------------------- program constants
MAX_NUM_RELAYS == 8
FIRST_RELAY == 1
OFF == 0
ON == 1
PULSE == 2
INVALID == 3
UNINIT == -1            \* content of an rstate slot nobody has written yet
EXIT_SUCCESS == 0
EXIT_FAILURE == 1
FORMDATA_SIZE == 64      \* sizeof(formdata)

RELAY_TAG == "pin"
STATE_TAG == "status"
SERIAL_TAG == "serial"
API_URL == "gpio"

\* A NULL char* is the empty tuple, a string s is <<s>>.
NULL == <<>>
Str(s) == <<s>>
IsNull(p) == p = <<>>
Val(p) == p[1]

\* ------------------------------------------------------------- C library
Min(a, b) == IF a < b THEN a ELSE b

Suffix(s, i) == IF i > Len(s) THEN "" ELSE SubSeq(s, i, Len(s))

CharAt(s, i) == SubSeq(s, i, i)

\* strstr(): 1-based index of the first occurrence of needle, 0 for NULL
strstr(hay, needle) ==
  LET hits == { i \in 1..(Len(hay) - Len(needle) + 1) :
                   SubSeq(hay, i, i + Len(needle) - 1) = needle }
  IN IF hits = {} THEN 0 ELSE CHOOSE i \in hits : \A j \in hits : i <= j

\* strchr(): 1-based index of the first occurrence of the character c, 0 for NULL
strchr(s, c) == strstr(s, c)

Digits == <<"0", "1", "2", "3", "4", "5", "6", "7", "8", "9">>
IsDigit(c) == \E d \in 1..10 : Digits[d] = c
DigitVal(c) == (CHOOSE d \in 1..10 : Digits[d] = c) - 1

RECURSIVE atoiDigits(_, _, _)
atoiDigits(s, i, acc) ==
  IF i <= Len(s) /\ IsDigit(CharAt(s, i))
  THEN atoiDigits(s, i + 1, acc * 10 + DigitVal(CharAt(s, i)))
  ELSE acc

RECURSIVE skipSpaces(_, _)
skipSpaces(s, i) ==
  IF i <= Len(s) /\ CharAt(s, i) = " " THEN skipSpaces(s, i + 1) ELSE i

\* atoi(): leading blanks, an optional sign, then decimal digits; 0 if none
atoi(s) ==
  LET i == skipSpaces(s, 1)
  IN IF i <= Len(s) /\ CharAt(s, i) = "-" THEN 0 - atoiDigits(s, i + 1, 0)
     ELSE IF i <= Len(s) /\ CharAt(s, i) = "+" THEN atoiDigits(s, i + 1, 0)
     ELSE atoiDigits(s, i, 0)

\* strtok(s, " "): <<token, rest>>; token is NULL when only blanks are left
strtok(s) ==
  LET b == skipSpaces(s, 1)
      r == Suffix(s, b)
      e == strchr(r, " ")
  IN IF b > Len(s) THEN <<NULL, "">>
     ELSE IF e = 0 THEN <<Str(r), "">>
     ELSE <<Str(SubSeq(r, 1, e - 1)), Suffix(r, e + 1)>>

\* strcasecmp(s, t) = 0, over the letters the inputs use
ToUpper(c) ==
  CASE c = "g" -> "G" [] c = "e" -> "E" [] c = "t" -> "T" [] c = "p" -> "P"
    [] c = "o" -> "O" [] c = "s" -> "S" [] c = "u" -> "U" [] c = "n" -> "N"
    [] c = "f" -> "F" [] OTHER -> c

RECURSIVE Upper(_)
Upper(s) == IF s = "" THEN "" ELSE ToUpper(CharAt(s, 1)) \o Upper(Suffix(s, 2))

strcaseeq(s, t) == Upper(s) = Upper(t)

\* ------------------------------------------------------------------ inputs
CardSerial == "A1"

\* Argument vectors; ArgVectors[k][n+1] is the C argv[n].  The vectors listed
\* are those on which main() reads argv only inside [0, argc].
ArgVectors ==
  { <<"crelay">>, <<"crelay", "-d">>, <<"crelay", "-i">>,
    <<"crelay", "1">>, <<"crelay", "2">>, <<"crelay", "0">>, <<"crelay", "9">>,
    <<"crelay", "1", "on">>, <<"crelay", "1", "off">>, <<"crelay", "2", "ON">>,
    <<"crelay", "2", "OFF">>, <<"crelay", "1", "On">>, <<"crelay", "1", "oN">>,
    <<"crelay", "2", "Off">>, <<"crelay", "1", "toggle">>,
    <<"crelay", "9", "on">>,
    <<"crelay", "-s">>, <<"crelay", "-s", "A1", "1">>, <<"crelay", "-s", "ZZ", "1">>,
    <<"crelay", "-s", "A1", "2", "on">>, <<"crelay", "-s", "A1", "1", "oFF">>,
    <<"crelay", "1", "on", "extra">>,
    <<"crelay", "1", "on", "a", "b", "c">>,
    <<"crelay", "-s", "A1", "1", "on", "extra">> }

\* What conf_parse() finds in CONFIG_FILE: loaded says whether it returned >= 0,
\* pulse is the value text of "HTTP server"/"pulse_duration" (NULL: key absent).
ConfigFiles ==
  { [loaded |-> FALSE, pulse |-> NULL],
    [loaded |-> TRUE,  pulse |-> NULL],
    [loaded |-> TRUE,  pulse |-> Str("0")],
    [loaded |-> TRUE,  pulse |-> Str("-1")],
    [loaded |-> TRUE,  pulse |-> Str("256")] }

\* What a client sends on a connection: sent = FALSE is a connection closed
\* without data; line is the request line; clen the text after
\* "Content-Length:" (NULL: no such header); body the text after the headers.
Get(u) == [sent |-> TRUE, line |-> "GET " \o u \o " HTTP/1.1", clen |-> NULL, body |-> ""]
Post(u, n, b) == [sent |-> TRUE, line |-> "POST " \o u \o " HTTP/1.1", clen |-> Str(n), body |-> b]

HttpRequests ==
  { Get("/"), Get("/gpio"),
    Get("/gpio?pin=1&status=1"), Get("/gpio?pin=1&status=2"),
    Get("/gpio?pin=3&status=2"), Get("/gpio?pin=9&status=1"),
    Get("/gpio?pin=1&status=5"), Get("/gpio?pin=0&status=1"), Get("/gpio?status=1"),
    Get("/gpio?serial=A1&pin=1&status=0"), Get("/gpio?pin=1&status=1&serial=ZZ"),
    Get("/?pin=2&status=1"), Get("/?serial=gpio"), Get("/index?x=gpio"),
    Get("/gpio?spin=2&status=1"), Get("/gpio?serial=pin12&status=1"),
    Get("/gpio?pin=9&status=2"), Get("/gpio?pin=-1&status=2"),
    Post("/gpio", " 14", "pin=1&status=1"), Post("/gpio", " 14", "pin=2&status=2"),
    Post("/gpio", " 64", "pin=1&status=1"), Post("/gpio", " 14", ""),
    [sent |-> TRUE, line |-> "PUT /gpio HTTP/1.1", clen |-> NULL, body |-> ""],
    [sent |-> TRUE, line |-> "GET", clen |-> NULL, body |-> ""],
    [sent |-> FALSE, line |-> "", clen |-> NULL, body |-> ""] }

\* ------------------------------------------------------------------- state
VARIABLES
  pc,             \* position of the process in main() / process_http_request()
  argv,           \* the argument vector the process was started with
  argn,           \* main(): index of the relay number argument
  serial,         \* serial filter (char*), of main() or of the handler
  num_relays,     \* main(): relay count reported by the detection
  exit_code,      \* exit status once pc = "exit" (UNINIT while running)
  stdout,         \* lines main() printed, as tags
  card_relays,    \* relays of the attached card, 0: no card attached
  hw,             \* hardware state of the attached card's relays
  pulse_duration, \* config.pulse_duration
  pending,        \* connections opened by clients and not yet accepted
  connected,      \* connections the clients have opened so far
  accepted,       \* connections accept() has returned
  returned,       \* calls of process_http_request() that have returned
  req,            \* what the client of the accepted connection sends
  url,            \* handler: url (char*)
  formdata,       \* handler: formdata buffer
  formdatalen,    \* handler: formdatalen
  relay,          \* handler: relay
  nstate,         \* handler: nstate
  last_relay,     \* handler: last_relay
  rstate,         \* handler: rstate[0 .. MAX_NUM_RELAYS-1]
  i,              \* handler: loop index of the snapshot
  observed,       \* handler: outcome of the test rstate[relay-1] == ON
  response,       \* what the handler wrote to the socket
  ret,            \* return value of the last process_http_request()
  calls,          \* backend calls and sleeps of the current request / command
  owners,         \* connection numbers of the maximal runs of consecutive backend calls
  accessed        \* handler: the indices at which rstate has been accessed

main_vars == <<argv, argn, num_relays, exit_code, stdout>>
env_vars == <<card_relays, hw>>
conn_vars == <<pending, connected, accepted, returned>>
handler_vars == <<req, url, formdata, formdatalen, relay, nstate, last_relay,
                  rstate, i, observed, response, ret>>
hist_vars == <<accessed>>
vars == <<pc, serial, pulse_duration, calls, owners,
          main_vars, env_vars, conn_vars, handler_vars, hist_vars>>

Relays == 1..card_relays

NoResponse == [status |-> 0, mime |-> "", body |-> "", table |-> <<>>]
NoRequest == [sent |-> FALSE, line |-> "", clen |-> NULL, body |-> ""]
FreshRstate == [k \in 0..(MAX_NUM_RELAYS - 1) |-> UNINIT]

argc == Len(argv)
Arg(n) == argv[n + 1]

Init ==
  /\ pc = "main"
  /\ argv \in ArgVectors
  /\ argn = 1
  /\ serial = NULL
  /\ num_relays = FIRST_RELAY
  /\ exit_code = UNINIT
  /\ stdout = <<>>
  /\ card_relays \in 0..MaxRelayCount
  /\ hw \in [1..card_relays -> {OFF, ON}]
  /\ pulse_duration = 0
  /\ pending = 0 /\ connected = 0 /\ accepted = 0 /\ returned = 0
  /\ req = NoRequest
  /\ url = NULL
  /\ formdata = ""
  /\ formdatalen = 0
  /\ relay = 0
  /\ nstate = INVALID
  /\ last_relay = FIRST_RELAY
  /\ rstate = FreshRstate
  /\ i = 0
  /\ observed = UNINIT
  /\ response = NoResponse
  /\ ret = 0
  /\ calls = <<>>
  /\ owners = <<>>
  /\ accessed = {}

\* ------------------------------------------- relay drivers (relay_drv.h)
\* crelay_detect_relay_card(com_port, &num_relays, serial, NULL): the relay
\* count of the attached card, or -1 when there is none or its serial is not
\* the one asked for.
crelay_detect_relay_card(ser) ==
  IF card_relays > 0 /\ (IsNull(ser) \/ Val(ser) = "" \/ Val(ser) = CardSerial)
  THEN card_relays ELSE -1

\* crelay_detect_all_relay_cards(&relay_info)
crelay_detect_all_relay_cards == IF card_relays > 0 THEN 0 ELSE -1

\* crelay_get_relay(com_port, ch, &state, serial): the outcomes the driver can
\* produce, [err, st]; st is written to *state only when err = 0.
crelay_get_relay(ch) ==
  IF ch \in Relays
  THEN {[err |-> 0, st |-> hw[ch]], [err |-> -1, st |-> UNINIT]}
  ELSE {[err |-> -1, st |-> UNINIT]}

\* crelay_set_relay(com_port, ch, st, serial): the outcomes [err, hw'].  A
\* target that is neither ON nor OFF is outside the contract: the driver may
\* refuse it or drive the relay either way.
crelay_set_relay(ch, st) ==
  IF ch \notin Relays THEN {[err |-> -1, hw |-> hw]}
  ELSE IF st \in {OFF, ON}
  THEN {[err |-> 0, hw |-> [hw EXCEPT ![ch] = st]], [err |-> -1, hw |-> hw]}
  ELSE {[err |-> 0, hw |-> [hw EXCEPT ![ch] = v]] : v \in {OFF, ON}}
         \cup {[err |-> -1, hw |-> hw]}

\* owners after a backend call made for connection c
Owned(c) ==
  IF owners # <<>> /\ owners[Len(owners)] = c THEN owners ELSE Append(owners, c)

GetCall(ch, o) == [op |-> "get", ch |-> ch, st |-> o.st, err |-> o.err]
SetCall(ch, st, o) == [op |-> "set", ch |-> ch, st |-> st, err |-> o.err]
SleepCall(d) == [op |-> "sleep", ch |-> 0, st |-> d, err |-> 0]

\* ------------------------------------------------------------------ main()
Exit(code) == pc' = "exit" /\ exit_code' = code

\* lines 763-767: no argument at all
MainUsage ==
  /\ pc = "main" /\ argc = 1
  /\ stdout' = Append(stdout, "usage")
  /\ Exit(EXIT_SUCCESS)
  /\ UNCHANGED <<argv, argn, num_relays, serial, pulse_duration, calls, owners,
                 env_vars, conn_vars, handler_vars>>
  /\ UNCHANGED hist_vars

\* Faulty variant of ValidPulseDuration: the value is used as loaded.
ValidPulseDurationUnchecked(d) == d

\* lines 850-854: "Ensure pulse duration is valid"
ValidPulseDuration(d) == IF d = 0 THEN 1 ELSE d

\* config.h: the pulse_duration field of config_t is an unsigned 8-bit integer
\* (line 805 prints it with %u); storing an int into it keeps the low 8 bits.
ConfigPulseDuration(v) == v % 256

\* lines 790-791 with config_cb() lines 137-140: config as conf_parse() leaves it
LoadedPulseDuration(cfg) ==
  IF IsNull(cfg.pulse) THEN 0 ELSE ConfigPulseDuration(atoi(Val(cfg.pulse)))

\* lines 769-892: daemon mode up to the accept loop
DaemonStart ==
  /\ pc = "main" /\ argc > 1 /\ Arg(1) \in {"-d", "-D"}
  /\ \E cfg \in ConfigFiles, bound \in BOOLEAN :
       /\ pulse_duration' = ValidPulseDuration(LoadedPulseDuration(cfg))
       /\ IF bound
          THEN /\ pc' = "accept"
               /\ num_relays' = IF crelay_detect_relay_card(NULL) = -1
                                THEN num_relays ELSE crelay_detect_relay_card(NULL)
               /\ UNCHANGED exit_code
          ELSE Exit(EXIT_FAILURE) /\ UNCHANGED num_relays
  /\ UNCHANGED <<argv, argn, stdout, serial, calls, owners,
                 env_vars, conn_vars, handler_vars>>
  /\ UNCHANGED hist_vars

\* lines 913-931: crelay -i
CliInfo ==
  /\ pc = "main" /\ argc > 1 /\ Arg(1) \notin {"-d", "-D"}
  /\ Arg(argn) = "-i"
  /\ IF crelay_detect_all_relay_cards = -1
     THEN /\ stdout' = Append(stdout, "No compatible device detected.")
          /\ Exit(255)                  \* return -1
     ELSE /\ stdout' = Append(stdout, "Detected relay cards:")
          /\ Exit(EXIT_SUCCESS)
  /\ UNCHANGED <<argv, argn, num_relays, serial, pulse_duration, calls, owners,
                 env_vars, conn_vars, handler_vars>>
  /\ UNCHANGED hist_vars

\* lines 933-946: the optional -s <serial number>
CliSerial ==
  /\ pc = "main" /\ argc > 1 /\ Arg(1) \notin {"-d", "-D"}
  /\ Arg(argn) # "-i"
  /\ IF Arg(argn) = "-s"
     THEN IF argc > argn + 1
          THEN /\ serial' = Str(Arg(argn + 1))
               /\ argn' = argn + 2
               /\ pc' = "cli_detect"
               /\ UNCHANGED <<stdout, exit_code>>
          ELSE /\ stdout' = Append(stdout, "usage")
               /\ Exit(EXIT_FAILURE)
               /\ UNCHANGED <<serial, argn>>
     ELSE /\ pc' = "cli_detect"
          /\ UNCHANGED <<serial, argn, stdout, exit_code>>
  /\ UNCHANGED <<argv, num_relays, pulse_duration, calls, owners,
                 env_vars, conn_vars, handler_vars>>
  /\ UNCHANGED hist_vars

\* lines 948-966
CliDetect ==
  /\ pc = "cli_detect"
  /\ IF crelay_detect_relay_card(serial) = -1
     THEN /\ stdout' = Append(stdout, "** No compatible device detected **")
          /\ Exit(EXIT_FAILURE)
          /\ UNCHANGED num_relays
     ELSE /\ num_relays' = crelay_detect_relay_card(serial)
          /\ pc' = "cli_switch"
          /\ UNCHANGED <<stdout, exit_code>>
  /\ UNCHANGED <<argv, argn, serial, pulse_duration, calls, owners,
                 env_vars, conn_vars, handler_vars>>
  /\ UNCHANGED hist_vars

\* lines 970-977: case 2, case 4: GET current relay state
CliGet ==
  /\ pc = "cli_switch" /\ argc \in {2, 4}
  /\ \E o \in crelay_get_relay(atoi(Arg(argn))) :
       /\ calls' = Append(calls, GetCall(atoi(Arg(argn)), o))
       /\ IF o.err = 0
          THEN /\ stdout' = Append(stdout, IF o.st = ON THEN "Relay is on" ELSE "Relay is off")
               /\ Exit(EXIT_SUCCESS)
          ELSE /\ Exit(EXIT_FAILURE)
               /\ UNCHANGED stdout
  /\ UNCHANGED <<argv, argn, num_relays, serial, pulse_duration, owners,
                 env_vars, conn_vars, handler_vars>>
  /\ UNCHANGED hist_vars

\* lines 982-985: the state token of "SET new relay state"; UNINIT: no match
CliStateToken(tok) ==
  IF tok = "on" \/ tok = "ON" THEN ON
  ELSE IF tok = "off" \/ tok = "OFF" THEN OFF
  ELSE UNINIT

\* Faulty variant of CliSetExit: the result of the set is not looked at
CliSetExitIgnored(err) == EXIT_SUCCESS

\* lines 991-993, 1000: exit status after crelay_set_relay() returned err
CliSetExit(err) == IF err # 0 THEN EXIT_FAILURE ELSE EXIT_SUCCESS

\* lines 979-993: case 3, case 5: SET new relay state
CliSet ==
  /\ pc = "cli_switch" /\ argc \in {3, 5}
  /\ LET st == CliStateToken(Arg(argn + 1))
         ch == atoi(Arg(argn))
     IN IF st = UNINIT
        THEN /\ stdout' = Append(stdout, "usage")
             /\ Exit(EXIT_FAILURE)
             /\ UNCHANGED <<calls, hw>>
        ELSE \E o \in crelay_set_relay(ch, st) :
               /\ calls' = Append(calls, SetCall(ch, st, o))
               /\ hw' = o.hw
               /\ Exit(CliSetExit(o.err))
               /\ UNCHANGED stdout
  /\ UNCHANGED <<argv, argn, num_relays, serial, pulse_duration, owners,
                 card_relays, conn_vars, handler_vars>>
  /\ UNCHANGED hist_vars

\* lines 995-1000: default: print_usage(), then the common exit(EXIT_SUCCESS)
CliDefault ==
  /\ pc = "cli_switch" /\ argc \notin {2, 3, 4, 5}
  /\ stdout' = Append(stdout, "usage")
  /\ Exit(EXIT_SUCCESS)
  /\ UNCHANGED <<argv, argn, num_relays, serial, pulse_duration, calls, owners,
                 env_vars, conn_vars, handler_vars>>
  /\ UNCHANGED hist_vars

\* ------------------------------------------------------- the accept loop
\* A client opens a connection; it waits in the listen queue.
ClientConnect ==
  /\ pc \notin {"main", "cli_detect", "cli_switch", "exit"}
  /\ connected < MaxConnections
  /\ connected' = connected + 1
  /\ pending' = pending + 1
  /\ UNCHANGED <<pc, serial, pulse_duration, calls, owners, main_vars, env_vars,
                 accepted, returned, handler_vars>>
  /\ UNCHANGED hist_vars

\* Faulty variant of AcceptReady: connections are accepted while a request is
\* being processed
AcceptAnyTime == pc \notin {"main", "cli_detect", "cli_switch", "exit"}

\* lines 894-899: the loop is back at accept()
AcceptReady == pc = "accept"

\* lines 899-903: accept() returns a connection and process_http_request(s) is
\* entered
Accept ==
  /\ AcceptReady
  /\ pending > 0
  /\ pending' = pending - 1
  /\ accepted' = accepted + 1
  /\ pc' = "h_read"
  /\ UNCHANGED <<serial, pulse_duration, calls, owners, main_vars, env_vars,
                 connected, returned, handler_vars>>
  /\ UNCHANGED hist_vars

\* lines 899-900, 907: accept() fails, the loop ends and main() exits
AcceptError ==
  /\ pc = "accept"
  /\ Exit(EXIT_SUCCESS)
  /\ UNCHANGED <<argv, argn, num_relays, stdout, serial, pulse_duration, calls,
                 owners, env_vars, conn_vars, handler_vars>>
  /\ UNCHANGED hist_vars

\* ------------------------------------------------ process_http_request()
\* read_httppost_data(): <<return value, data>>
read_httppost_data(r) ==
  LET data_len == IF IsNull(r.clen) THEN 0 ELSE atoi(Val(r.clen))
  IN IF data_len < 0 \/ data_len >= FORMDATA_SIZE THEN <<-1, "">>
     ELSE IF data_len = 0 THEN <<0, "">>
     ELSE IF r.body = "" THEN <<-1, "">>
     ELSE <<data_len, SubSeq(r.body, 1, Min(data_len, Len(r.body)))>>

\* read_httpget_data(): <<return value, data>>
read_httpget_data(u) ==
  LET q == strchr(u, "?")
      data == IF q = 0 THEN "" ELSE SubSeq(u, q + 1, Min(Len(u), q + FORMDATA_SIZE))
  IN <<Len(data), data>>

\* lines 569-574
ParseRelay(fd) ==
  LET p == strstr(fd, RELAY_TAG)
  IN IF p # 0 THEN atoi(Suffix(fd, p + Len(RELAY_TAG) + 1)) ELSE 0

\* lines 575-579
ParseState(fd) ==
  LET p == strstr(fd, STATE_TAG)
  IN IF p # 0 THEN atoi(Suffix(fd, p + Len(STATE_TAG) + 1)) ELSE INVALID

\* lines 580-587
ParseSerial(fd) ==
  LET p == strstr(fd, SERIAL_TAG)
      rest == Suffix(fd, p + Len(SERIAL_TAG) + 1)
      amp == strstr(rest, "&")
  IN IF p = 0 THEN NULL
     ELSE IF amp # 0 THEN Str(SubSeq(rest, 1, amp - 1)) ELSE Str(rest)

\* lines 594, 648: strstr(url, API_URL)
IsApiRequest(u) == strstr(u, API_URL) # 0

Return(code) == pc' = "h_return" /\ ret' = code

\* lines 507-589: read the request line, the form data and its fields
ReadRequest ==
  /\ pc = "h_read"
  /\ \E r \in HttpRequests :
       LET t1 == strtok(r.line)
           method == t1[1]
           u == strtok(t1[2])[1]
           isPost == strcaseeq(Val(method), "POST")
           isGet == strcaseeq(Val(method), "GET")
           fd == IF isPost THEN read_httppost_data(r) ELSE read_httpget_data(Val(u))
       IN /\ req' = r
          /\ IF ~r.sent \/ IsNull(method)
             THEN /\ Return(-1)
                  /\ UNCHANGED <<url, formdata, formdatalen, relay, nstate, serial, response>>
             ELSE IF IsNull(u)
             THEN /\ Return(-2)
                  /\ UNCHANGED <<url, formdata, formdatalen, relay, nstate, serial, response>>
             ELSE IF ~isPost /\ ~isGet
             THEN /\ Return(-3)
                  /\ url' = u
                  /\ UNCHANGED <<formdata, formdatalen, relay, nstate, serial, response>>
             ELSE /\ url' = u
                  /\ formdatalen' = fd[1]
                  /\ formdata' = fd[2]
                  /\ IF fd[1] < 0
                     THEN /\ response' = [status |-> 500, mime |-> "text/html",
                                          body |-> "ERROR: Invalid Input.", table |-> <<>>]
                          /\ Return(0)
                          /\ UNCHANGED <<relay, nstate, serial>>
                     ELSE /\ relay' = IF fd[1] > 0 THEN ParseRelay(fd[2]) ELSE 0
                          /\ nstate' = IF fd[1] > 0 THEN ParseState(fd[2]) ELSE INVALID
                          /\ serial' = IF fd[1] > 0 THEN ParseSerial(fd[2]) ELSE NULL
                          /\ pc' = "h_detect"
                          /\ UNCHANGED <<response, ret>>
  /\ UNCHANGED <<pulse_duration, calls, owners, main_vars, env_vars, conn_vars,
                 last_relay, rstate, i, observed>>
  /\ UNCHANGED hist_vars

\* line 613: the request asks for an action
HasAction == formdatalen > 0 /\ relay # 0 /\ nstate # INVALID

\* lines 591-616: card detection and the choice of the action
Detect ==
  /\ pc = "h_detect"
  /\ IF crelay_detect_relay_card(serial) = -1
     THEN /\ response' =
               IF IsApiRequest(Val(url))
               THEN [status |-> 503, mime |-> "text/plain",
                     body |-> "ERROR: No compatible device detected", table |-> <<>>]
               ELSE [status |-> 200, mime |-> "text/html",
                     body |-> "web_page_error", table |-> <<>>]
          /\ Return(0)
          /\ UNCHANGED <<last_relay, i>>
     ELSE /\ last_relay' = crelay_detect_relay_card(serial)
          /\ pc' = IF ~HasAction THEN "h_snapshot"
                   ELSE IF nstate = PULSE THEN "h_pulse_get" ELSE "h_set"
          /\ i' = IF ~HasAction THEN FIRST_RELAY ELSE i
          /\ UNCHANGED <<response, ret>>
  /\ UNCHANGED <<serial, pulse_duration, calls, owners, main_vars, env_vars, conn_vars,
                 req, url, formdata, formdatalen, relay, nstate, rstate, observed>>
  /\ UNCHANGED hist_vars

\* What a read of rstate[idx] can yield: the value stored, or any value when the
\* slot was never written or lies outside the array (INVALID stands for every
\* value that is neither ON nor OFF).
ReadSlot(idx) ==
  IF idx \in 0..(MAX_NUM_RELAYS - 1) /\ rstate[idx] # UNINIT
  THEN {rstate[idx]} ELSE {OFF, ON, INVALID}

\* Faulty variant of WriteSlot: the state is stored one slot too far
WriteSlotShifted(idx, o) ==
  IF o.err = 0 /\ idx + 1 \in 0..(MAX_NUM_RELAYS - 1)
  THEN [rstate EXCEPT ![idx + 1] = o.st] ELSE rstate

\* A write of o.st to rstate[idx] as crelay_get_relay() does it on success
WriteSlot(idx, o) ==
  IF o.err = 0 /\ idx \in 0..(MAX_NUM_RELAYS - 1)
  THEN [rstate EXCEPT ![idx] = o.st] ELSE rstate

\* line 619: crelay_get_relay(com_port, relay, &rstate[relay-1], serial)
PulseGet ==
  /\ pc = "h_pulse_get"
  /\ \E o \in crelay_get_relay(relay) :
       /\ rstate' = WriteSlot(relay - 1, o)
       /\ calls' = Append(calls, GetCall(relay, o))
  /\ owners' = Owned(accepted)
  /\ pc' = "h_pulse_set1"
  /\ UNCHANGED <<serial, pulse_duration, main_vars, env_vars, conn_vars,
                 req, url, formdata, formdatalen, relay, nstate, last_relay, i,
                 observed, response, ret>>
  /\ accessed' = accessed \cup {relay - 1}

\* lines 620-622, 626-628: target of the first write of a pulse
PulseFirstTarget(seen) == IF seen = ON THEN OFF ELSE ON

\* Faulty variant of PulseSecondTarget: the second write repeats the first one
PulseSecondTargetSame(seen) == PulseFirstTarget(seen)

\* lines 624, 630: target of the second write of a pulse
PulseSecondTarget(seen) == IF seen = ON THEN ON ELSE OFF

\* lines 620-622, 626-628: the test of rstate[relay-1] and the first write
PulseFirstSet ==
  /\ pc = "h_pulse_set1"
  /\ \E seen \in ReadSlot(relay - 1) :
       /\ observed' = seen
       /\ \E o \in crelay_set_relay(relay, PulseFirstTarget(seen)) :
            /\ hw' = o.hw
            /\ calls' = Append(calls, SetCall(relay, PulseFirstTarget(seen), o))
  /\ owners' = Owned(accepted)
  /\ pc' = "h_pulse_sleep"
  /\ UNCHANGED <<serial, pulse_duration, main_vars, card_relays, conn_vars,
                 req, url, formdata, formdatalen, relay, nstate, last_relay, rstate, i,
                 response, ret>>
  /\ accessed' = accessed \cup {relay - 1}

\* lines 623, 629: sleep(config.pulse_duration)
PulseSleep ==
  /\ pc = "h_pulse_sleep"
  /\ calls' = Append(calls, SleepCall(pulse_duration))
  /\ pc' = "h_pulse_set2"
  /\ UNCHANGED <<serial, pulse_duration, owners, main_vars, env_vars, conn_vars,
                 handler_vars>>
  /\ UNCHANGED hist_vars

\* lines 624, 630: the second write
PulseSecondSet ==
  /\ pc = "h_pulse_set2"
  /\ \E o \in crelay_set_relay(relay, PulseSecondTarget(observed)) :
       /\ hw' = o.hw
       /\ calls' = Append(calls, SetCall(relay, PulseSecondTarget(observed), o))
  /\ owners' = Owned(accepted)
  /\ pc' = "h_snapshot"
  /\ i' = FIRST_RELAY
  /\ UNCHANGED <<serial, pulse_duration, main_vars, card_relays, conn_vars,
                 req, url, formdata, formdatalen, relay, nstate, last_relay, rstate,
                 observed, response, ret>>
  /\ UNCHANGED hist_vars

\* line 636: crelay_set_relay(com_port, relay, nstate, serial)
SetRelay ==
  /\ pc = "h_set"
  /\ \E o \in crelay_set_relay(relay, nstate) :
       /\ hw' = o.hw
       /\ calls' = Append(calls, SetCall(relay, nstate, o))
  /\ owners' = Owned(accepted)
  /\ pc' = "h_snapshot"
  /\ i' = FIRST_RELAY
  /\ UNCHANGED <<serial, pulse_duration, main_vars, card_relays, conn_vars,
                 req, url, formdata, formdatalen, relay, nstate, last_relay, rstate,
                 observed, response, ret>>
  /\ UNCHANGED hist_vars

\* Faulty variant of SnapshotMore: the loop stops one relay early
SnapshotMoreStrict == i < last_relay

\* line 642: loop condition of "Read current state for all relays"
SnapshotMore == i <= last_relay

\* lines 642-645: one turn of the loop
SnapshotGet ==
  /\ pc = "h_snapshot" /\ SnapshotMore
  /\ \E o \in crelay_get_relay(i) :
       /\ rstate' = WriteSlot(i - 1, o)
       /\ calls' = Append(calls, GetCall(i, o))
  /\ owners' = Owned(accepted)
  /\ i' = i + 1
  /\ UNCHANGED <<pc, serial, pulse_duration, main_vars, env_vars, conn_vars,
                 req, url, formdata, formdatalen, relay, nstate, last_relay,
                 observed, response, ret>>
  /\ accessed' = accessed \cup {i - 1}

\* lines 652-655, 671-678: the tables the response loops can print from rstate
StateTables ==
  { [k \in FIRST_RELAY..last_relay |-> [n |-> k, st |-> t[k]]] :
      t \in { f \in [FIRST_RELAY..last_relay -> {OFF, ON, INVALID}] :
                \A k \in FIRST_RELAY..last_relay : f[k] \in ReadSlot(k - 1) } }

\* line 677: rstate[i-1]==ON?"checked":""
Checkboxes(tbl) ==
  [k \in DOMAIN tbl |-> [n |-> tbl[k].n, st |-> IF tbl[k].st = ON THEN ON ELSE OFF]]

\* lines 647-684: "Send response to client"
SendResponse ==
  /\ pc = "h_snapshot" /\ ~SnapshotMore
  /\ \E tbl \in StateTables :
       response' =
         IF IsApiRequest(Val(url))
         THEN [status |-> 200, mime |-> "text/plain", body |-> "Relay n:state",
               table |-> tbl]
         ELSE [status |-> 200, mime |-> "text/html", body |-> "web_page",
               table |-> Checkboxes(tbl)]
  /\ Return(0)
  /\ UNCHANGED <<serial, pulse_duration, calls, owners, main_vars, env_vars, conn_vars,
                 req, url, formdata, formdatalen, relay, nstate, last_relay, rstate, i,
                 observed>>
  /\ accessed' = accessed \cup {k - 1 : k \in FIRST_RELAY..last_relay}

\* lines 686-690, 903-904: the handler returns (its locals, declared at lines
\* 490-505, are gone) and the socket is closed
HandlerReturn ==
  /\ pc = "h_return"
  /\ returned' = returned + 1
  /\ pc' = "accept"
  /\ req' = NoRequest
  /\ url' = NULL
  /\ formdata' = ""
  /\ formdatalen' = 0
  /\ relay' = 0
  /\ serial' = NULL
  /\ last_relay' = FIRST_RELAY
  /\ rstate' = FreshRstate
  /\ nstate' = INVALID
  /\ i' = 0
  /\ observed' = UNINIT
  /\ response' = NoResponse
  /\ calls' = <<>>
  /\ UNCHANGED <<pulse_duration, owners, main_vars, env_vars, pending, connected,
                 accepted, ret>>
  /\ accessed' = {}

Next ==
  \/ MainUsage
  \/ DaemonStart
  \/ CliInfo
  \/ CliSerial
  \/ CliDetect
  \/ CliGet
  \/ CliSet
  \/ CliDefault
  \/ ClientConnect
  \/ Accept
  \/ AcceptError
  \/ ReadRequest
  \/ Detect
  \/ PulseGet
  \/ PulseFirstSet
  \/ PulseSleep
  \/ PulseSecondSet
  \/ SetRelay
  \/ SnapshotGet
  \/ SendResponse
  \/ HandlerReturn

Spec == Init /\ [][Next]_vars

\* ------------------------------------------------------------- properties
HandlerPcs == {"h_read", "h_detect", "h_pulse_get", "h_pulse_set1", "h_pulse_sleep",
               "h_pulse_set2", "h_set", "h_snapshot", "h_return"}

IsBackendCall(c) == c.op \in {"get", "set"}
IsSet(c) == c.op = "set"
AllCallsOk == \A k \in DOMAIN calls : calls[k].err = 0

\* the handler has finished a request for which a card was resolved
Served == pc = "h_return" /\ response.status = 200
            /\ response.body \in {"Relay n:state", "web_page"}

\* the handler has finished a request for which Discovery returned NotFound
NotFoundServed == pc = "h_return"
                    /\ response.body \in {"ERROR: No compatible device detected",
                                          "web_page_error"}

\* the command line asked for a query or a set and the card was detected
CliExecuted == pc = "exit" /\ argc \in 2..5 /\ Arg(1) \notin {"-d", "-D", "-i"}
                 /\ \A k \in DOMAIN stdout :
                      stdout[k] \notin {"usage", "** No compatible device detected **"}

\* C1: a request whose channel is outside [1, relay_count] of the resolved card
\* ends in a failure and no backend get/set is issued for it (HTTP SetState and
\* Pulse, command line query and set).
C1_OutOfRangeRejected ==
  /\ (Served /\ HasAction /\ nstate \in {OFF, ON, PULSE}
        /\ relay \notin FIRST_RELAY..last_relay)
       => (\A k \in DOMAIN calls : ~IsBackendCall(calls[k]))
  /\ (Served /\ HasAction /\ nstate \in {OFF, ON, PULSE})
       => relay \in FIRST_RELAY..last_relay
  /\ (CliExecuted /\ atoi(Arg(argn)) \notin FIRST_RELAY..num_relays)
       => (exit_code # EXIT_SUCCESS /\ calls = <<>>)

\* C2: a Pulse on channel c whose backend calls all succeed reads c first, then
\* writes the opposite of what it read, sleeps pulse_duration with c in that
\* opposite state, then writes back the state it read; when the handler
\* returns c is in the state observed before the pulse.
Opposite(st) == IF st = ON THEN OFF ELSE ON

PulseRequest == HasAction /\ nstate = PULSE

C2_PulseSequence ==
  (PulseRequest /\ AllCallsOk) =>
    /\ pc = "h_pulse_set1" =>
         /\ calls = <<[op |-> "get", ch |-> relay, st |-> hw[relay], err |-> 0]>>
         /\ hw[relay] \in {OFF, ON}
    /\ pc \in {"h_pulse_sleep", "h_pulse_set2"} =>
         /\ calls[1].op = "get" /\ calls[1].ch = relay
         /\ calls[2] = [op |-> "set", ch |-> relay, st |-> Opposite(calls[1].st), err |-> 0]
         /\ hw[relay] = Opposite(calls[1].st)
         /\ pc = "h_pulse_sleep" => Len(calls) = 2
         /\ pc = "h_pulse_set2" =>
              calls = <<calls[1], calls[2], SleepCall(pulse_duration)>>
    /\ (pc = "h_snapshot" \/ Served) =>
         /\ Len(calls) >= 4
         /\ SubSeq(calls, 1, 4) =
              << [op |-> "get", ch |-> relay, st |-> calls[1].st, err |-> 0],
                 [op |-> "set", ch |-> relay, st |-> Opposite(calls[1].st), err |-> 0],
                 SleepCall(pulse_duration),
                 [op |-> "set", ch |-> relay, st |-> calls[1].st, err |-> 0] >>
         /\ \A k \in 5..Len(calls) : ~IsSet(calls[k])
         /\ hw[relay] = calls[1].st

C2_Witness ==
  /\ Served /\ PulseRequest /\ AllCallsOk
  /\ calls[1].st = ON /\ hw[relay] = ON /\ calls[2].st = OFF

\* C3: in a Pulse a failed write aborts the sequence (nothing is slept or
\* written after it) and the request is answered with a failure, not with a
\* 200 state table.
C3_PulseAbortsOnError ==
  \A k \in DOMAIN calls :
    (PulseRequest /\ IsSet(calls[k]) /\ calls[k].err # 0) =>
       /\ \A j \in (k + 1)..Len(calls) : calls[j].op \notin {"sleep", "set"}
       /\ pc = "h_return" => response.status # 200

\* C4: an HTTP SetState(c, s) with c in [1, relay_count], s in {ON, OFF} and
\* every backend call succeeding returns a table that reports c as s, the
\* value being the one a get issued after the set returned.
SetStateRequest == HasAction /\ nstate \in {OFF, ON} /\ relay \in FIRST_RELAY..last_relay

C4_ReadAfterWrite ==
  (Served /\ SetStateRequest /\ AllCallsOk) =>
    /\ calls[1] = [op |-> "set", ch |-> relay, st |-> nstate, err |-> 0]
    /\ relay \in DOMAIN response.table
    /\ response.table[relay].n = relay
    /\ response.table[relay].st = nstate
    /\ \E k \in 2..Len(calls) :
         /\ calls[k].op = "get" /\ calls[k].ch = relay
         /\ calls[k].st = response.table[relay].st

C4_Witness ==
  /\ Served /\ SetStateRequest /\ AllCallsOk
  /\ relay = 1 /\ nstate = ON /\ response.table[1].st = ON
  /\ last_relay = 2 /\ IsApiRequest(Val(url))

\* C5: when a card is resolved the handler, after the action, reads each
\* channel 1..relay_count exactly once and in order, no such read comes before
\* the last write, and the response lists exactly one entry per channel in
\* ascending order.
LastWrite ==
  LET w == {k \in DOMAIN calls : calls[k].op \in {"set", "sleep"}}
  IN IF w = {} THEN 0 ELSE CHOOSE k \in w : \A j \in w : j <= k

C5_FullSnapshot ==
  Served =>
    LET snap == SubSeq(calls, LastWrite + 1, Len(calls))
    IN /\ last_relay = card_relays
       /\ Len(snap) = last_relay
       /\ \A k \in 1..Len(snap) : snap[k].op = "get" /\ snap[k].ch = k
       /\ LastWrite \in {0, 1, 4}
       /\ \A k \in 1..LastWrite : calls[k].op = "get" => (k = 1 /\ nstate = PULSE)
       /\ Len(response.table) = last_relay
       /\ \A n \in 1..last_relay : response.table[n].n = n

C5_Witness ==
  /\ Served /\ PulseRequest /\ IsApiRequest(Val(url))
  /\ last_relay = 2 /\ Len(calls) = 6 /\ Len(response.table) = 2

\* C6: when Discovery returns NotFound the handler answers 503 text/plain if the
\* URL is the API path and the HTML error block otherwise, issues no backend
\* get/set, and returns, after which the loop is back at accept().
UrlPath(u) == IF strchr(u, "?") = 0 THEN u ELSE SubSeq(u, 1, strchr(u, "?") - 1)

IsApiPath(u) == UrlPath(u) = "/" \o API_URL

C6_NotFoundFails ==
  [][ /\ (pc = "h_detect" /\ pc' # pc /\ crelay_detect_relay_card(serial) = -1) =>
           /\ pc' = "h_return"
           /\ calls' = <<>> /\ hw' = hw
           /\ IF IsApiPath(Val(url))
              THEN response'.status = 503 /\ response'.mime = "text/plain"
              ELSE response'.body = "web_page_error" /\ response'.mime = "text/html"
      /\ (pc = "h_return" /\ pc' # pc) => (pc' = "accept" /\ returned' = returned + 1)
    ]_vars

\* C7: a status value other than 0, 1 or the Pulse code causes no set call, and
\* every set call the handler issues carries ON or OFF.
C7_OnlyOnOffWritten ==
  (pc \in HandlerPcs) =>
    /\ nstate \notin {OFF, ON, PULSE} => \A k \in DOMAIN calls : ~IsSet(calls[k])
    /\ \A k \in DOMAIN calls : IsSet(calls[k]) => calls[k].st \in {OFF, ON}

\* C8: requests are strictly serialized: a connection is accepted only after the
\* handler of the previous one has returned, the backend calls of each
\* connection form one uninterrupted run, and between the two writes of a
\* Pulse the most recent backend call is the Pulse's own.
C8_Serialized ==
  /\ pc = "accept" => accepted = returned
  /\ pc \in HandlerPcs => accepted = returned + 1
  /\ \A j, k \in DOMAIN owners : j < k => owners[j] < owners[k]
  /\ pc \in {"h_pulse_sleep", "h_pulse_set2"} =>
       (owners # <<>> /\ owners[Len(owners)] = accepted)

C8_Witness ==
  /\ pc = "h_pulse_set2" /\ pending > 0
  /\ accepted = 1 /\ connected = 2

\* C9: a backend error outside a Pulse is surfaced: a failed set of an HTTP
\* SetState or a failed get of the snapshot gives a response that is not a 200
\* state table; a failed get or set of a command line command gives a non-zero
\* exit code.
C9_BackendErrorSurfaced ==
  /\ (Served /\ ~PulseRequest /\ ~AllCallsOk) => FALSE
  /\ (pc = "exit" /\ ~AllCallsOk) => exit_code # EXIT_SUCCESS

\* C10: an argument vector that is none of -i, [-s SERIAL] CHANNEL and
\* [-s SERIAL] CHANNEL on|off makes main() print the usage and exit non-zero
\* without any backend get/set.
CliOperands ==
  IF argc >= 2 /\ Arg(1) = "-s" THEN SubSeq(argv, 4, argc) ELSE SubSeq(argv, 2, argc)

WellFormedArgs ==
  \/ argv = <<argv[1], "-i">>
  \/ /\ argc >= 2 /\ (Arg(1) = "-s" => argc >= 3)
     /\ \/ Len(CliOperands) = 1
        \/ Len(CliOperands) = 2 /\ Upper(CliOperands[2]) \in {"ON", "OFF"}

C10_UsageError ==
  (pc = "exit" /\ argc >= 2 /\ Arg(1) \notin {"-d", "-D"} /\ ~WellFormedArgs) =>
     /\ \E k \in DOMAIN stdout : stdout[k] = "usage"
     /\ exit_code # EXIT_SUCCESS
     /\ calls = <<>>

\* C11: on the command line the exit code is 0 when the query or set
\* succeeded and non-zero when no device is detected (with or without -s) or
\* the backend get/set failed; with no device no get/set is attempted.
CliMode == pc = "exit" /\ argc >= 2 /\ Arg(1) \notin {"-d", "-D"}

C11_CliExitCode ==
  CliMode =>
    /\ (Arg(1) # "-i" /\ crelay_detect_relay_card(serial) = -1) =>
         (exit_code # EXIT_SUCCESS /\ calls = <<>>)
    /\ (Arg(1) = "-i" /\ crelay_detect_all_relay_cards = -1) =>
         (exit_code # EXIT_SUCCESS /\ calls = <<>>)
    /\ (calls # <<>> /\ AllCallsOk) => exit_code = EXIT_SUCCESS
    /\ (calls # <<>> /\ ~AllCallsOk) => exit_code # EXIT_SUCCESS

C11_Witness ==
  /\ CliMode /\ Len(calls) = 1 /\ calls[1].op = "set" /\ calls[1].err # 0
  /\ calls[1].ch \in Relays /\ exit_code = EXIT_FAILURE

\* C12: a malformed HTTP request (no URL, unsupported method, missing or
\* unparseable fields, unreadable POST body) is answered like a pure status
\* query: the client gets the state table or the no-device answer, and no set
\* call is issued.
C12_MalformedDegrades ==
  (pc = "h_return" /\ req.sent) =>
     /\ Served \/ NotFoundServed
     /\ ~HasAction => \A k \in DOMAIN calls : ~IsSet(calls[k])

\* The key/value pairs a request carries: the text after "?" of a GET url or
\* the body of a POST, split at "&" and then at the first "=".
RECURSIVE Pairs(_)
Pairs(fd) ==
  IF fd = "" THEN <<>>
  ELSE LET amp == strchr(fd, "&")
           item == IF amp = 0 THEN fd ELSE SubSeq(fd, 1, amp - 1)
           eq == strchr(item, "=")
           pair == IF eq = 0 THEN [key |-> item, val |-> ""]
                   ELSE [key |-> SubSeq(item, 1, eq - 1), val |-> Suffix(item, eq + 1)]
       IN <<pair>> \o (IF amp = 0 THEN <<>> ELSE Pairs(Suffix(fd, amp + 1)))

HasKey(fd, k) == \E n \in DOMAIN Pairs(fd) : Pairs(fd)[n].key = k

KeyValue(fd, k) ==
  LET ps == Pairs(fd)
      n == CHOOSE m \in DOMAIN ps : ps[m].key = k /\ \A j \in 1..(m - 1) : ps[j].key # k
  IN ps[n].val

Query(u) == IF strchr(u, "?") = 0 THEN "" ELSE Suffix(u, strchr(u, "?") + 1)

RequestData ==
  IF strcaseeq(Val(strtok(req.line)[1]), "POST") THEN req.body ELSE Query(Val(url))

\* the handler has parsed the request of the connection it is serving
Parsed == pc \in HandlerPcs \ {"h_read"} /\ ~IsNull(url)

\* the handler has finished a parsed request for which a card was resolved
Resolved ==
  /\ pc = "h_return" /\ ~IsNull(url) /\ ret = 0 /\ formdatalen >= 0
  /\ crelay_detect_relay_card(serial) # -1

NoChannel ==
  ~HasKey(RequestData, RELAY_TAG) \/ atoi(KeyValue(RequestData, RELAY_TAG)) = 0

\* C13: an HTTP request whose channel value is 0 or that has no channel key
\* issues no backend set call and no pulse sleep, whatever status it carries,
\* and is answered with the state table of every channel of the resolved card.
C13_NoChannelNoAction ==
  (Parsed /\ NoChannel) =>
     /\ \A k \in DOMAIN calls : calls[k].op = "get"
     /\ Resolved => (Served /\ Len(response.table) = card_relays)

\* C14: the command `[-s SERIAL] CHANNEL token` on a detected card issues
\* set(channel, ON) for every letter-case variant of "on" and set(channel, OFF)
\* for every letter-case variant of "off".
C14_TokenCaseInsensitive ==
  (/\ CliMode /\ Len(CliOperands) = 2
   /\ Upper(CliOperands[2]) \in {"ON", "OFF"}
   /\ crelay_detect_relay_card(serial) # -1) =>
     \E k \in DOMAIN calls :
        /\ IsSet(calls[k])
        /\ calls[k].ch = atoi(CliOperands[1])
        /\ calls[k].st = IF Upper(CliOperands[2]) = "ON" THEN ON ELSE OFF

\* C15: while the accept loop runs config.pulse_duration is greater than 0:
\* it is 1 when the config file is absent, fails to load or gives no
\* pulse_duration, it is greater than 0 for every value the file supplies
\* (0 and negative values included), and every pulse sleep lasts more than 0.
AcceptLoopRunning == pc \in HandlerPcs \cup {"accept"}

\* the value main() ends up with for each config file
ConfigDurationsValid ==
  \A cfg \in ConfigFiles :
     /\ ValidPulseDuration(LoadedPulseDuration(cfg)) > 0
     /\ (~cfg.loaded \/ IsNull(cfg.pulse)) =>
          ValidPulseDuration(LoadedPulseDuration(cfg)) = 1

Answered == pc = "h_return" /\ ~IsNull(url) /\ ret = 0 /\ formdatalen >= 0

C16_FormatByPath ==
  Answered =>
    IF IsApiPath(Val(url)) THEN response.mime = "text/plain"
    ELSE response.mime = "text/html"
         /\ response.body \in {"web_page", "web_page_error"}

\* C17: an HTTP SetState(c, s) or Pulse(c) on an N-channel card issues set
\* calls for channel c only: no step of the request changes another channel,
\* and every channel other than c has in the returned table the state it had
\* before the request.
MutationRequest ==
  HasAction /\ nstate \in {OFF, ON, PULSE} /\ relay \in FIRST_RELAY..last_relay

C17_OnlyTargetTouched ==
  [][(pc' \in HandlerPcs /\ HasAction') =>
       /\ \A k \in DOMAIN calls' : IsSet(calls'[k]) => calls'[k].ch = relay'
       /\ \A n \in Relays : n # relay' => hw'[n] = hw[n]
       /\ (Served' /\ MutationRequest') =>
            /\ DOMAIN response'.table = FIRST_RELAY..last_relay'
            /\ \A n \in DOMAIN response'.table :
                 n # relay' => response'.table[n].st = hw'[n]]_vars

\* C18: each of the three fields is set from its own key only: without a pin
\* key the channel stays 0, without a status key the state stays INVALID and
\* without a serial key the serial filter stays unset, whatever the values of
\* the other keys are.
C18_FieldsFromOwnKeys ==
  Parsed =>
    /\ ~HasKey(RequestData, RELAY_TAG) => relay = 0
    /\ ~HasKey(RequestData, STATE_TAG) => nstate = INVALID
    /\ ~HasKey(RequestData, SERIAL_TAG) => IsNull(serial)

\* C19: every index at which process_http_request reads or writes rstate lies
\* in [0, MAX_NUM_RELAYS - 1], for every channel value a request can carry and
\* every relay count the card can report.
C19_RstateIndexInBounds == accessed \subseteq 0..(MAX_NUM_RELAYS - 1)

====
